---- MODULE Spec2Model ----
(***************************************************************************)
(* Model of ml-model/app.py: the keyword sentiment classifier              *)
(* (SentimentAnalyzer.predict) and the Flask handlers of /predict and      *)
(* /batch-predict together with the CloudWatch metric emission.            *)
(*                                                                         *)
(* Text is a sequence of one-character strings.  A float confidence is     *)
(* kept as the integer number of thousandths that round(x, 3) returns      *)
(* (0.5 is 500, 1.0 is 1000, 0.0 is 0).                                    *)
(***************************************************************************)
EXTENDS Integers, Sequences, FiniteSets, TLC

(* ---------------- bounds of the model ---------------- *)

\* longest text of the classifier inputs, counted in chunks of Chunks
MaxChunks == 4
\* largest number of sentiment-bearing words drawn for the decision step
MaxTotal == 1001
\* number of requests handled concurrently
NumWorkers == 2

(* ---------------- program constants ---------------- *)

\* app.py:179  len(text) > 1000
MaxTextLen == 1000
\* app.py:232  len(texts) > 100
MaxBatch == 100
\* app.py:111  round(confidence, 3), as a power of ten
Scale == 1000
\* mantissa bits of the double that holds count / total, for a quotient in [0.5, 1)
MantissaBits == 53

(* ---------------- keyword sets (SentimentAnalyzer.__init__) ---------------- *)

PositiveWords ==
    { <<"g","o","o","d">>,
      <<"g","r","e","a","t">>,
      <<"e","x","c","e","l","l","e","n","t">>,
      <<"a","m","a","z","i","n","g">>,
      <<"w","o","n","d","e","r","f","u","l">>,
      <<"f","a","n","t","a","s","t","i","c">>,
      <<"a","w","e","s","o","m","e">>,
      <<"b","r","i","l","l","i","a","n","t">>,
      <<"o","u","t","s","t","a","n","d","i","n","g">>,
      <<"p","e","r","f","e","c","t">>,
      <<"l","o","v","e">>,
      <<"l","i","k","e">>,
      <<"h","a","p","p","y">>,
      <<"p","l","e","a","s","e","d">>,
      <<"s","a","t","i","s","f","i","e","d">>,
      <<"i","m","p","r","e","s","s","e","d">>,
      <<"r","e","c","o","m","m","e","n","d">> }

NegativeWords ==
    { <<"b","a","d">>,
      <<"t","e","r","r","i","b","l","e">>,
      <<"a","w","f","u","l">>,
      <<"h","o","r","r","i","b","l","e">>,
      <<"d","i","s","a","p","p","o","i","n","t","i","n","g">>,
      <<"h","a","t","e">>,
      <<"d","i","s","l","i","k","e">>,
      <<"a","n","g","r","y">>,
      <<"f","r","u","s","t","r","a","t","e","d">>,
      <<"a","n","n","o","y","e","d">>,
      <<"p","o","o","r">>,
      <<"w","o","r","s","t">>,
      <<"u","s","e","l","e","s","s">>,
      <<"b","r","o","k","e","n">>,
      <<"f","a","i","l","e","d">>,
      <<"e","r","r","o","r">>,
      <<"p","r","o","b","l","e","m">>,
      <<"i","s","s","u","e">> }

\* string.punctuation (its backquote, which cannot be written in a string, by name)
Punctuation ==
    { "!", "\"", "#", "$", "%", "&", "'", "(", ")", "*", "+", ",", "-", ".", "/", ":", ";", "<", "=", ">", "?", "@", "[", "\\", "]", "^", "_", "BACKQUOTE", "{", "|", "}", "~" }

\* str.lower() on the ASCII capitals
UpperToLower ==
    ("A" :> "a") @@ ("B" :> "b") @@ ("C" :> "c") @@ ("D" :> "d") @@ ("E" :> "e") @@ ("F" :> "f") @@ ("G" :> "g") @@ ("H" :> "h") @@ ("I" :> "i") @@ ("J" :> "j") @@ ("K" :> "k") @@ ("L" :> "l") @@ ("M" :> "m") @@ ("N" :> "n") @@ ("O" :> "o") @@ ("P" :> "p") @@ ("Q" :> "q") @@ ("R" :> "r") @@ ("S" :> "s") @@ ("T" :> "t") @@ ("U" :> "u") @@ ("V" :> "v") @@ ("W" :> "w") @@ ("X" :> "x") @@ ("Y" :> "y") @@ ("Z" :> "z")

\* str.split() separators that the inputs of the model use
Whitespace == { " ", "\t", "\n" }

(* ---------------- JSON values ---------------- *)

\* A JSON value as Python sees it after request.get_json(): kind is the
\* Python type, n the number (bool: 0/1), s the characters of a str and
\* items the elements of a list (each a value without items of its own).
Elem(kind, n, s) == [kind |-> kind, n |-> n, s |-> s]
Val(kind, n, s, items) == [kind |-> kind, n |-> n, s |-> s, items |-> items]
Str(s) == Val("str", 0, s, <<>>)
Num(n) == Val("num", n, <<>>, <<>>)
Null == Val("null", 0, <<>>, <<>>)
List(items) == Val("list", 0, <<>>, items)
EStr(s) == Elem("str", 0, s)
AsVal(e) == Val(e.kind, e.n, e.s, <<>>)

\* Python truth value of a value (the operand of `not`)
Truthy(v) ==
    CASE v.kind = "null" -> FALSE
      [] v.kind = "bool" -> v.n # 0
      [] v.kind = "num"  -> v.n # 0
      [] v.kind = "str"  -> Len(v.s) > 0
      [] v.kind = "list" -> Len(v.items) > 0
      [] OTHER           -> v.n > 0

isinstance_str(v) == v.kind = "str"

(* ---------------- SentimentAnalyzer.predict ---------------- *)

\* str.lower() on one character
LowerChar(c) == IF c \in DOMAIN UpperToLower THEN UpperToLower[c] ELSE c
lower(s) == [k \in 1..Len(s) |-> LowerChar(s[k])]

NotPunctuation(c) == c \notin Punctuation
\* variant of translate that leaves the punctuation in place
translate_keeps_punctuation(s) == s
\* text_lower.translate(str.maketrans("", "", string.punctuation))
translate(s) == SelectSeq(s, NotPunctuation)

\* positions where a word of s begins
WordStarts(s) ==
    { k \in 1..Len(s) : s[k] \notin Whitespace /\ (k = 1 \/ s[k-1] \in Whitespace) }
\* last position of the word that begins at k
WordEnd(s, k) ==
    LET ends == { j \in k..Len(s) : j = Len(s) \/ s[j+1] \in Whitespace }
    IN  CHOOSE j \in ends : \A m \in ends : j <= m
\* str.split(): the maximal runs of non-whitespace characters, in order
split(s) ==
    LET starts == WordStarts(s)
        nth(k) == CHOOSE b \in starts : Cardinality({ c \in starts : c < b }) = k - 1
    IN  [k \in 1..Cardinality(starts) |-> SubSeq(s, nth(k), WordEnd(s, nth(k)))]

\* sum(1 for word in words if word in keywords)
CountIn(words, keywords) == Cardinality({ k \in 1..Len(words) : words[k] \in keywords })

RECURSIVE Pow2Mod(_, _)
\* 2^e modulo t
Pow2Mod(e, t) == IF e = 0 THEN 1 % t ELSE (2 * Pow2Mod(e - 1, t)) % t

\* variant of Round3 that truncates to three decimals instead of rounding
Round3_truncating(p, t) == (Scale * p) \div t

\* round(p / t, 3) in thousandths, for 0 < t and t < 2p <= 2t.  p / t is the
\* double nearest to the quotient; round() rounds that double correctly, so
\* a quotient that lies exactly between two thousandths goes the way the
\* double's own rounding error points, and to the even thousandth when the
\* double is exact.
Round3(p, t) ==
    LET q   == (Scale * p) \div t
        r   == (Scale * p) % t
        rem == (p * Pow2Mod(MantissaBits, t)) % t
    IN  IF 2 * r < t THEN q
        ELSE IF 2 * r > t THEN q + 1
        ELSE IF rem = 0 THEN (IF q % 2 = 0 THEN q ELSE q + 1)
        ELSE IF 2 * rem < t THEN q ELSE q + 1

\* the literal 0.5 and 0.0 of the source, in thousandths
Half == Scale \div 2
Zero == 0

\* result dictionary of predict; has_error / has_counts tell which keys exist
Result(sentiment, confidence, has_error, has_counts, p, n) ==
    [ sentiment |-> sentiment, confidence |-> confidence,
      has_error |-> has_error,
      error |-> IF has_error THEN "Invalid input text" ELSE "",
      has_counts |-> has_counts, positive_words |-> p, negative_words |-> n ]

InvalidResult == Result("neutral", Zero, TRUE, FALSE, 0, 0)

\* the decision of predict from the two counts (app.py 94-114)
Decide(positive_count, negative_count) ==
    LET total_sentiment_words == positive_count + negative_count
        sentiment ==
            IF total_sentiment_words = 0 THEN "neutral"
            ELSE IF positive_count > negative_count THEN "positive"
            ELSE IF negative_count > positive_count THEN "negative"
            ELSE "neutral"
        confidence ==
            IF total_sentiment_words = 0 THEN Half
            ELSE IF positive_count > negative_count
                 THEN Round3(positive_count, total_sentiment_words)
            ELSE IF negative_count > positive_count
                 THEN Round3(negative_count, total_sentiment_words)
            ELSE Half
    IN  Result(sentiment, confidence, FALSE, TRUE, positive_count, negative_count)

\* variant of predict_with whose guard only tests the type, not emptiness
predict_with_type_check_only(text, pos, neg) ==
    IF ~isinstance_str(text)
    THEN InvalidResult
    ELSE Decide(CountIn(split(translate(lower(text.s))), pos),
                CountIn(split(translate(lower(text.s))), neg))

\* predict with the keyword sets it reads given explicitly
predict_with(text, pos, neg) ==
    IF ~Truthy(text) \/ ~isinstance_str(text)
    THEN InvalidResult
    ELSE LET text_lower == lower(text.s)
             text_clean == translate(text_lower)
             words      == split(text_clean)
         IN  Decide(CountIn(words, pos), CountIn(words, neg))

(* ---------------- state ---------------- *)

VARIABLES
    positive_words,   \* model.positive_words, shared by every request
    negative_words,   \* model.negative_words, shared by every request
    cloudwatch,       \* the module-level client: "None" or "client"
    handler,          \* per worker: the frame of the request it is handling
    arg,              \* argument of a direct call of model.predict
    out,              \* value returned by that call
    positive_count,   \* counts given to the decision step
    negative_count,
    verdict,          \* result of the decision step
    phase             \* "input" before the direct call / step, "output" after

vars == << positive_words, negative_words, cloudwatch, handler,
           arg, out, positive_count, negative_count, verdict, phase >>

Workers == 1..NumWorkers

\* model.predict(text): reads the keyword sets of the shared instance
predict(text) == predict_with(text, positive_words, negative_words)

\* no value yet
NoResult == Result("", Zero, FALSE, FALSE, 0, 0)

(* ---------------- inputs of the classifier ---------------- *)

good  == <<"g","o","o","d">>
bad   == <<"b","a","d">>
ok    == <<"o","k">>

Chunks ==
    { good \o <<" ">>, <<" ","L","O","V","E">>, bad \o <<" ">>,
      <<"A","w","f","u","l">>, ok, <<" ">>, <<"\n">>, <<"!">>, <<"-">> }

RECURSIVE TextsUpTo(_)
\* the texts made of at most n chunks
TextsUpTo(n) ==
    IF n = 0 THEN { <<>> }
    ELSE LET shorter == TextsUpTo(n - 1)
         IN  shorter \cup { t \o c : t \in shorter, c \in Chunks }

NonStrings ==
    { Null, Num(0), Num(5), Val("bool", 1, <<>>, <<>>), Val("bool", 0, <<>>, <<>>),
      List(<<>>), List(<<EStr(good)>>), Val("obj", 0, <<>>, <<>>), Val("obj", 1, <<>>, <<>>) }

PredictArgs == { Str(t) : t \in TextsUpTo(MaxChunks) } \cup NonStrings

(* ---------------- request bodies ---------------- *)

\* request.get_json(): a JSON value; for an object, which of the keys "text"
\* and "texts" it has, their values, and n = the number of its other keys
Body(v, has_text, text, has_texts, texts) ==
    [ kind |-> v.kind, n |-> v.n, s |-> v.s, items |-> v.items,
      has_text |-> has_text, text |-> text, has_texts |-> has_texts, texts |-> texts ]
NonObject(v) == Body(v, FALSE, Null, FALSE, Null)
Object(others) == Body(Val("obj", others, <<>>, <<>>), FALSE, Null, FALSE, Null)
WithText(text) == Body(Val("obj", 0, <<>>, <<>>), TRUE, text, FALSE, Null)
WithTexts(texts) == Body(Val("obj", 0, <<>>, <<>>), FALSE, Null, TRUE, texts)

\* truth value of the parsed body: an empty dict is false
BodyTruthy(data) ==
    IF data.kind = "obj" THEN data.has_text \/ data.has_texts \/ data.n > 0
    ELSE Truthy(Val(data.kind, data.n, data.s, data.items))

KeyChars(key) ==
    IF key = "text" THEN <<"t","e","x","t">> ELSE <<"t","e","x","t","s">>

IsSubstring(k, s) ==
    \E b \in 1..(Len(s) - Len(k) + 1) : SubSeq(s, b, b + Len(k) - 1) = k

\* `if not data or key not in data: return 400` followed by `data[key]`:
\* "missing" (the 400), "found", or the exception that is raised
Lookup(data, key) ==
    IF ~BodyTruthy(data) THEN "missing"
    ELSE CASE data.kind = "obj" ->
                IF (key = "text" /\ data.has_text) \/ (key = "texts" /\ data.has_texts)
                THEN "found" ELSE "missing"
           [] data.kind \in { "num", "bool" } -> "TypeError"
           [] data.kind = "str" ->
                IF IsSubstring(KeyChars(key), data.s) THEN "TypeError" ELSE "missing"
           [] data.kind = "list" ->
                IF \E k \in 1..Len(data.items) : data.items[k] = EStr(KeyChars(key))
                THEN "TypeError" ELSE "missing"
           [] OTHER -> "missing"

\* str.strip()
strip(s) ==
    LET inner == { k \in 1..Len(s) : s[k] \notin Whitespace }
        first == CHOOSE k \in inner : \A j \in 1..(k - 1) : s[j] \in Whitespace
        last  == CHOOSE k \in inner : \A j \in (k + 1)..Len(s) : s[j] \in Whitespace
    IN  IF inner = {} THEN <<>> ELSE SubSeq(s, first, last)

(* ---------------- responses ---------------- *)

\* one element of "results"
Entry(index, has_error, has_prediction, prediction, input_text) ==
    [ index |-> index, has_error |-> has_error,
      error |-> IF has_error THEN "Text must be a string" ELSE "",
      has_prediction |-> has_prediction, prediction |-> prediction,
      has_input_text |-> has_prediction, input_text |-> input_text ]

\* body of a response; kind "none": no response yet, "error": jsonify of an
\* error, "prediction" / "batch": the success bodies, "unhandled": the
\* response Flask makes when the exception leaves the view function
Response(kind, error, message, prediction, input_text, results, total_texts) ==
    [ kind |-> kind, error |-> error, message |-> message,
      prediction |-> prediction, input_text |-> input_text,
      results |-> results, total_texts |-> total_texts,
      model_version |-> IF kind \in { "prediction", "batch" } THEN "1.0.0" ELSE "" ]
NoResponse == Response("none", "", "", NoResult, Null, <<>>, 0)
ErrorBody(error, message) == Response("error", error, message, NoResult, Null, <<>>, 0)

(* ---------------- validation of the two endpoints ---------------- *)

Outcome(kind, error, exc) == [ kind |-> kind, error |-> error, exc |-> exc ]

\* variant of PredictValidation without the test of the stripped length
PredictValidation_without_strip(data) ==
    LET found == Lookup(data, "text")
        text  == data.text
    IN  IF found = "missing" THEN Outcome("reject", "Missing required field: text", "")
        ELSE IF found = "TypeError" THEN Outcome("raise", "", "TypeError")
        ELSE IF ~isinstance_str(text)
             THEN Outcome("reject", "Text must be a non-empty string", "")
        ELSE IF Len(text.s) > MaxTextLen
             THEN Outcome("reject", "Text too long. Maximum 1000 characters allowed.", "")
        ELSE Outcome("pass", "", "")

\* predict_sentiment, app.py 168-185: "reject" is a 400 with the error,
\* "raise" an exception caught at line 211, "pass" reaches model.predict
PredictValidation(data) ==
    LET found == Lookup(data, "text")
        text  == data.text
    IN  IF found = "missing" THEN Outcome("reject", "Missing required field: text", "")
        ELSE IF found = "TypeError" THEN Outcome("raise", "", "TypeError")
        ELSE IF ~isinstance_str(text) \/ Len(strip(text.s)) = 0
             THEN Outcome("reject", "Text must be a non-empty string", "")
        ELSE IF Len(text.s) > MaxTextLen
             THEN Outcome("reject", "Text too long. Maximum 1000 characters allowed.", "")
        ELSE Outcome("pass", "", "")

\* batch_predict, app.py 222-236
BatchValidation(data) ==
    LET found == Lookup(data, "texts")
        texts == data.texts
    IN  IF found = "missing" THEN Outcome("reject", "Missing required field: texts", "")
        ELSE IF found = "TypeError" THEN Outcome("raise", "", "TypeError")
        ELSE IF texts.kind # "list" THEN Outcome("reject", "Texts must be a list", "")
        ELSE IF Len(texts.items) > MaxBatch
             THEN Outcome("reject", "Too many texts. Maximum 100 texts allowed.", "")
        ELSE Outcome("pass", "", "")

\* variant of BatchEntry that numbers the entries from 1
BatchEntry_one_based(i, text) ==
    IF ~isinstance_str(AsVal(text))
    THEN Entry(i + 1, TRUE, FALSE, NoResult, Null)
    ELSE Entry(i + 1, FALSE, TRUE, predict(AsVal(text)), AsVal(text))

\* body of the loop of batch_predict for element text at index i, app.py 240-246
BatchEntry(i, text) ==
    IF ~isinstance_str(AsVal(text))
    THEN Entry(i, TRUE, FALSE, NoResult, Null)
    ELSE Entry(i, FALSE, TRUE, predict(AsVal(text)), AsVal(text))

\* what one call of put_metric can do: return at once without a client,
\* send the metric, log a ClientError, or let any other exception of
\* put_metric_data through (only ClientError is caught, app.py 144)
put_metric ==
    IF cloudwatch = "None" THEN { "skipped" }
    ELSE { "sent", "logged", "raised" }

(* ---------------- frames of the request handlers ---------------- *)

Frame(pc, endpoint, data, text, texts, i, results, result, called, passed, exc, status, body) ==
    [ pc |-> pc, endpoint |-> endpoint, data |-> data, text |-> text, texts |-> texts,
      i |-> i, results |-> results, result |-> result,
      called |-> called, passed |-> passed, exc |-> exc, status |-> status, body |-> body ]

IdleFrame ==
    Frame("idle", "", NonObject(Null), Null, Null, 0, <<>>, NoResult, FALSE, Null, "", 0, NoResponse)

\* a frame that has just entered the view function with body data
Entered(endpoint, data) ==
    [ IdleFrame EXCEPT !.pc = "entered", !.endpoint = endpoint, !.data = data ]

(* ---------------- request bodies sent to the service ---------------- *)

Pad(n, c) == [ k \in 1..n |-> c ]
ENum(n) == Elem("num", n, <<>>)
ENull == Elem("null", 0, <<>>)
True == Val("bool", 1, <<>>, <<>>)

TextValues ==
    { Str(<<>>), Str(<<" ">>), Str(<<" ", "\n", "\t">>), Str(good), Str(ok),
      Str(good \o <<" ">> \o bad), Str(<<"G","o","o","d","!">>),
      Str(bad \o <<" ">> \o good \o <<" ">> \o bad), Str(<<"!">>),
      Str(Pad(MaxTextLen, "a")), Str(Pad(MaxTextLen + 1, "a")),
      Str(<<" ">> \o Pad(MaxTextLen - 1, "a")), Str(<<" ">> \o Pad(MaxTextLen, "a")),
      Str(Pad(MaxTextLen + 1, " ")),
      Null, Num(0), Num(5), True, List(<<>>), List(<<EStr(good)>>),
      Val("obj", 1, <<>>, <<>>) }

TextsValues ==
    { List(<<>>), List(<<EStr(ok), ENum(5)>>), List(<<EStr(good)>>),
      List(<<ENum(5), ENull>>),
      List(<<EStr(<<>>), EStr(good \o <<" ">> \o bad), Elem("list", 0, <<>>), EStr(bad)>>),
      List(<<EStr(Pad(MaxTextLen + 1, "a"))>>),
      List(Pad(MaxBatch, EStr(ok))), List(Pad(MaxBatch + 1, EStr(ok))),
      List(Pad(MaxBatch, ENum(5))),
      Str(good), Num(5), Null, Val("obj", 1, <<>>, <<>>) }

NonObjects ==
    { Null, Num(0), Num(5), True, Str(<<>>), Str(ok), Str(KeyChars("text")),
      Str(KeyChars("texts")), List(<<>>), List(<<ENum(1)>>),
      List(<<EStr(KeyChars("text"))>>), List(<<EStr(KeyChars("texts"))>>) }

Bodies ==
    { WithText(v) : v \in TextValues } \cup { WithTexts(v) : v \in TextsValues }
    \cup { NonObject(v) : v \in NonObjects } \cup { Object(0), Object(1) }

\* the bodies of the requests that are handled concurrently
ConcBodies ==
    { WithText(Str(good \o <<" ">> \o ok)), WithText(Str(ok)),
      WithTexts(List(<<EStr(ok), ENum(5)>>)), WithTexts(List(<<EStr(good), EStr(bad)>>)),
      NonObject(Num(5)) }

(* ---------------- the request handlers, step by step ---------------- *)

Free(w) == handler[w].pc \in { "idle", "done" }

Rejected(f, error) ==
    [ f EXCEPT !.pc = "done", !.status = 400, !.body = ErrorBody(error, "") ]
Raised(f, exc) == [ f EXCEPT !.pc = "except", !.exc = exc ]

PureUnchanged == UNCHANGED << arg, out, positive_count, negative_count, verdict, phase >>
SharedUnchanged == UNCHANGED << positive_words, negative_words, cloudwatch >>

\* POST /predict arrives at worker w: app.py 165-185
predict_sentiment(w, bodies) ==
    /\ Free(w)
    /\ \E data \in bodies :
         LET f == Entered("/predict", data)
             v == PredictValidation(data)
         IN  handler' = [ handler EXCEPT ![w] =
                 CASE v.kind = "reject" -> Rejected(f, v.error)
                   [] v.kind = "raise"  -> Raised(f, v.exc)
                   [] OTHER -> [ f EXCEPT !.pc = "predict", !.text = data.text ] ]
    /\ SharedUnchanged /\ PureUnchanged

\* variant of ModelPredict in which a positive prediction adds the words of
\* the text to the shared positive keyword set
ModelPredict_learning(w) ==
    /\ handler[w].pc = "predict"
    /\ LET f == handler[w]
           r == predict(f.text)
           words == split(translate(lower(f.text.s)))
       IN  /\ handler' = [ handler EXCEPT ![w] =
                  [ f EXCEPT !.pc = "metric1", !.result = r,
                             !.called = TRUE, !.passed = f.text ] ]
           /\ positive_words' =
                 IF r.sentiment = "positive"
                 THEN positive_words \cup { words[k] : k \in 1..Len(words) }
                 ELSE positive_words
    /\ UNCHANGED << negative_words, cloudwatch >> /\ PureUnchanged

\* result = model.predict(text): app.py 188
ModelPredict(w) ==
    /\ handler[w].pc = "predict"
    /\ LET f == handler[w]
       IN  handler' = [ handler EXCEPT ![w] =
               [ f EXCEPT !.pc = "metric1", !.result = predict(f.text),
                          !.called = TRUE, !.passed = f.text ] ]
    /\ SharedUnchanged /\ PureUnchanged

\* POST /batch-predict arrives at worker w: app.py 219-238
batch_predict(w, bodies) ==
    /\ Free(w)
    /\ \E data \in bodies :
         LET f == Entered("/batch-predict", data)
             v == BatchValidation(data)
         IN  handler' = [ handler EXCEPT ![w] =
                 CASE v.kind = "reject" -> Rejected(f, v.error)
                   [] v.kind = "raise"  -> Raised(f, v.exc)
                   [] OTHER -> [ f EXCEPT !.texts = data.texts,
                                          !.pc = IF Len(data.texts.items) = 0
                                                 THEN "metric1" ELSE "loop" ] ]
    /\ SharedUnchanged /\ PureUnchanged

\* one iteration of `for i, text in enumerate(texts)`: app.py 239-246
BatchLoop(w) ==
    /\ handler[w].pc = "loop"
    /\ LET f    == handler[w]
           text == f.texts.items[f.i + 1]
           str  == isinstance_str(AsVal(text))
       IN  handler' = [ handler EXCEPT ![w] =
               [ f EXCEPT !.results = Append(f.results, BatchEntry(f.i, text)),
                          !.called = f.called \/ str,
                          !.passed = IF str THEN AsVal(text) ELSE f.passed,
                          !.i = f.i + 1,
                          !.pc = IF f.i + 1 = Len(f.texts.items) THEN "metric1" ELSE "loop" ] ]
    /\ SharedUnchanged /\ PureUnchanged

\* the two put_metric calls after the prediction: app.py 191-192, 249-250
PutMetric(w) ==
    /\ handler[w].pc \in { "metric1", "metric2" }
    /\ \E o \in put_metric :
         LET f == handler[w]
         IN  handler' = [ handler EXCEPT ![w] =
                 IF o = "raised" THEN Raised(f, "MetricError")
                 ELSE [ f EXCEPT !.pc = IF f.pc = "metric1" THEN "metric2" ELSE "respond" ] ]
    /\ SharedUnchanged /\ PureUnchanged

\* return jsonify(...), 200: app.py 200-209, 254-263
Respond(w) ==
    /\ handler[w].pc = "respond"
    /\ LET f == handler[w]
       IN  handler' = [ handler EXCEPT ![w] =
               [ f EXCEPT !.pc = "done", !.status = 200,
                          !.body = IF f.endpoint = "/predict"
                                   THEN Response("prediction", "", "", f.result, f.text, <<>>, 0)
                                   ELSE Response("batch", "", "", NoResult, Null,
                                                 f.results, Len(f.texts.items)) ] ]
    /\ SharedUnchanged /\ PureUnchanged

\* except Exception: put_metric("Errors", 1) and the 500: app.py 211-215,
\* 265-269; an exception of that put_metric leaves the view function
Except(w) ==
    /\ handler[w].pc = "except"
    /\ \E o \in put_metric :
         LET f == handler[w]
         IN  handler' = [ handler EXCEPT ![w] =
                 [ f EXCEPT !.pc = "done", !.status = 500,
                            !.body = IF o = "raised"
                                     THEN Response("unhandled", "", "", NoResult, Null, <<>>, 0)
                                     ELSE ErrorBody("Internal server error", f.exc) ] ]
    /\ SharedUnchanged /\ PureUnchanged

InitShared ==
    /\ positive_words = PositiveWords
    /\ negative_words = NegativeWords
    /\ cloudwatch \in { "None", "client" }
    /\ handler = [ w \in Workers |-> IdleFrame ]

InitPure ==
    /\ arg = Null /\ out = NoResult
    /\ positive_count = 0 /\ negative_count = 0 /\ verdict = NoResult
    /\ phase = "idle"

Init == InitShared /\ InitPure

\* one request at a time, any body
Next ==
    \/ predict_sentiment(1, Bodies)
    \/ batch_predict(1, Bodies)
    \/ ModelPredict(1)
    \/ BatchLoop(1)
    \/ PutMetric(1)
    \/ Respond(1)
    \/ Except(1)

Spec == Init /\ [][Next]_vars

\* every worker handles requests, interleaved step by step
NextConc ==
    \E w \in Workers :
        \/ predict_sentiment(w, ConcBodies)
        \/ batch_predict(w, ConcBodies)
        \/ ModelPredict(w)
        \/ BatchLoop(w)
        \/ PutMetric(w)
        \/ Respond(w)
        \/ Except(w)

SpecConc == Init /\ [][NextConc]_vars

(* ---------------- the classifier called directly ---------------- *)

InitPredict ==
    /\ InitShared
    /\ arg \in PredictArgs
    /\ out = NoResult
    /\ positive_count = 0 /\ negative_count = 0 /\ verdict = NoResult
    /\ phase = "input"

\* result = model.predict(arg)
Call ==
    /\ phase = "input"
    /\ out' = predict(arg)
    /\ phase' = "output"
    /\ UNCHANGED << positive_words, negative_words, cloudwatch, handler,
                    arg, positive_count, negative_count, verdict >>

NextPredict == Call

SpecPredict == InitPredict /\ [][NextPredict]_vars

(* ---------------- the decision step on arbitrary counts ---------------- *)

InitDecide ==
    /\ InitShared
    /\ arg = Null /\ out = NoResult
    /\ positive_count \in 0..MaxTotal
    /\ negative_count \in 0..(MaxTotal - positive_count)
    /\ verdict = NoResult
    /\ phase = "input"

\* app.py 94-114 applied to the counts
DecideStep ==
    /\ phase = "input"
    /\ verdict' = Decide(positive_count, negative_count)
    /\ phase' = "output"
    /\ UNCHANGED << positive_words, negative_words, cloudwatch, handler,
                    arg, out, positive_count, negative_count >>

NextDecide == DecideStep

SpecDecide == InitDecide /\ [][NextDecide]_vars

(* ======================= properties ======================= *)

RECURSIVE Tokens(_, _, _)
\* The words of s as the specification describes them, read in one pass from
\* position k with the word cur collected so far: lower-cased, punctuation
\* dropped, cut at whitespace.
Tokens(s, k, cur) ==
    LET flush == IF cur = <<>> THEN <<>> ELSE << cur >>
    IN  IF k > Len(s) THEN flush
        ELSE IF s[k] \in Whitespace THEN flush \o Tokens(s, k + 1, <<>>)
        ELSE IF s[k] \in Punctuation THEN Tokens(s, k + 1, cur)
        ELSE Tokens(s, k + 1, Append(cur, LowerChar(s[k])))

Occurrences(ws, keywords) == Cardinality({ k \in 1..Len(ws) : ws[k] \in keywords })

\* c thousandths is a nearest three-decimal value of p / t
NearestThousandth(c, p, t) ==
    /\ 2 * (c * t - Scale * p) <= t
    /\ 2 * (Scale * p - c * t) <= t

\* C1: for every non-empty string, predict returns the numbers P and N of
\* tokens (lower-cased, punctuation removed, split on whitespace) in the
\* positive and the negative set, positive with confidence P/(P+N) when
\* P > N, negative with N/(P+N) when N > P, and neutral with exactly 0.5
\* when P = N, the confidence rounded to three decimals.
C1_PredictContract ==
    (phase = "output" /\ arg.kind = "str" /\ arg.s # <<>>) =>
        LET ws == Tokens(arg.s, 1, <<>>)
            P  == Occurrences(ws, PositiveWords)
            N  == Occurrences(ws, NegativeWords)
        IN  /\ out.has_counts /\ out.positive_words = P /\ out.negative_words = N
            /\ P > N => out.sentiment = "positive" /\ NearestThousandth(out.confidence, P, P + N)
            /\ N > P => out.sentiment = "negative" /\ NearestThousandth(out.confidence, N, P + N)
            /\ P = N => out.sentiment = "neutral" /\ out.confidence = Half

\* a text with one positive and two negative words was classified
C1_Witness ==
    /\ phase = "output" /\ arg.kind = "str"
    /\ out.positive_words = 1 /\ out.negative_words = 2
    /\ out.sentiment = "negative" /\ out.confidence = 667

\* C2: predict returns an error field exactly for the empty string and for
\* a value that is not a string, and then neutral, confidence 0.0, the error
\* "Invalid input text" and no word counts; every other result has no error
\* field and a confidence that is not 0.0.
C2_ErrorIffInvalid ==
    phase = "output" =>
        /\ out.has_error <=> (arg.kind # "str" \/ arg.s = <<>>)
        /\ out.has_error =>
              /\ out.sentiment = "neutral" /\ out.confidence = Zero
              /\ out.error = "Invalid input text" /\ ~out.has_counts
        /\ ~out.has_error => out.confidence # Zero

\* the empty string was classified
C2_Witness ==
    /\ phase = "output" /\ arg = Str(<<>>)
    /\ out.has_error /\ out.confidence = Zero

AllWhitespace(s) == \A k \in 1..Len(s) : s[k] \in Whitespace

\* C3: POST /predict answers 400 when the body has no "text" field, when
\* text is not a string, when text is empty after trimming, or when the raw
\* text has more than 1000 characters, and otherwise 200 with
\* prediction = predict(text), input_text = text, model_version "1.0.0".
C3_PredictStatus ==
    \A w \in Workers :
        LET f == handler[w]
            d == f.data
            invalid == \/ ~(d.kind = "obj" /\ d.has_text)
                       \/ d.text.kind # "str"
                       \/ AllWhitespace(d.text.s)
                       \/ Len(d.text.s) > MaxTextLen
        IN  (f.pc = "done" /\ f.endpoint = "/predict") =>
                IF invalid THEN f.status = 400
                ELSE /\ f.status = 200
                     /\ f.body.kind = "prediction"
                     /\ f.body.prediction = predict(d.text)
                     /\ f.body.input_text = d.text
                     /\ f.body.model_version = "1.0.0"

\* C4: POST /batch-predict answers 400 when "texts" is absent, is not a
\* list or has more than 100 elements, and for every list of 0..100
\* elements 200 with total_texts equal to the length of the list.
C4_BatchStatus ==
    \A w \in Workers :
        LET f == handler[w]
            d == f.data
            invalid == \/ ~(d.kind = "obj" /\ d.has_texts)
                       \/ d.texts.kind # "list"
                       \/ Len(d.texts.items) > MaxBatch
        IN  (f.pc = "done" /\ f.endpoint = "/batch-predict") =>
                IF invalid THEN f.status = 400
                ELSE /\ f.status = 200
                     /\ f.body.kind = "batch"
                     /\ f.body.total_texts = Len(d.texts.items)

\* C5: in a 200 response of /batch-predict, results has one entry per
\* element of texts in input order, entry i has index i, carries an error
\* and no prediction when texts[i] is not a string, and prediction =
\* predict(texts[i]) with input_text = texts[i] when it is a string.
C5_BatchEntries ==
    \A w \in Workers :
        LET f  == handler[w]
            ts == f.data.texts.items
            rs == f.body.results
        IN  (f.pc = "done" /\ f.endpoint = "/batch-predict" /\ f.status = 200) =>
                /\ Len(rs) = Len(ts)
                /\ \A k \in 1..Len(ts) :
                      /\ rs[k].index = k - 1
                      /\ ts[k].kind # "str" =>
                            rs[k].has_error /\ ~rs[k].has_prediction
                      /\ ts[k].kind = "str" =>
                            /\ ~rs[k].has_error /\ rs[k].has_prediction
                            /\ rs[k].prediction = predict(AsVal(ts[k]))
                            /\ rs[k].has_input_text /\ rs[k].input_text = AsVal(ts[k])

\* a batch whose second element fails between two that succeed was answered
C5_Witness ==
    \E w \in Workers :
        LET f == handler[w]
        IN  /\ f.pc = "done" /\ f.endpoint = "/batch-predict" /\ f.status = 200
            /\ Len(f.body.results) = 4
            /\ f.body.results[3].has_error
            /\ f.body.results[4].has_prediction
            /\ f.body.results[4].prediction.sentiment = "negative"

\* C6: the status code and the body of a /predict response are the same
\* whether the metrics sink is absent, succeeds or fails: two requests with
\* the same body get the same response.
C6_MetricsDoNotChangeResponse ==
    \A w1, w2 \in Workers :
        LET f1 == handler[w1]
            f2 == handler[w2]
        IN  ( /\ f1.pc = "done" /\ f2.pc = "done"
              /\ f1.endpoint = "/predict" /\ f2.endpoint = "/predict"
              /\ f1.data = f2.data ) =>
                f1.status = f2.status /\ f1.body = f2.body

\* C7: under any interleaving of requests the shared keyword sets are never
\* modified and every prediction equals what predict returns for that text
\* when it runs alone.
C7_SharedSetsReadOnly ==
    /\ positive_words = PositiveWords
    /\ negative_words = NegativeWords
    /\ \A w \in Workers :
          LET f == handler[w]
          IN  /\ (f.endpoint = "/predict" /\ f.called) =>
                    f.result = predict_with(f.text, PositiveWords, NegativeWords)
              /\ \A k \in 1..Len(f.results) :
                    f.results[k].has_prediction =>
                        f.results[k].prediction =
                            predict_with(AsVal(f.texts.items[k]), PositiveWords, NegativeWords)

\* one request is inside the batch loop while another has its prediction
C7_Witness ==
    \E w1, w2 \in Workers :
        /\ w1 # w2
        /\ handler[w1].pc = "loop" /\ handler[w1].i = 1
        /\ handler[w2].endpoint = "/predict" /\ handler[w2].called
        /\ handler[w2].pc = "metric1" /\ handler[w2].result.sentiment = "positive"

\* C8: a text that passes the validation of /predict is a valid classifier
\* input, and the prediction of a 200 response of /predict never carries
\* the error field and never has confidence 0.0.
C8_ValidatedTextIsValid ==
    \A w \in Workers :
        LET f == handler[w]
        IN  /\ f.pc = "predict" => (f.text.kind = "str" /\ f.text.s # <<>>)
            /\ (f.pc = "done" /\ f.endpoint = "/predict" /\ f.status = 200) =>
                  /\ ~f.body.prediction.has_error
                  /\ f.body.prediction.confidence # Zero

\* a text without any keyword got its 200 response
C8_Witness ==
    \E w \in Workers :
        LET f == handler[w]
        IN  /\ f.pc = "done" /\ f.endpoint = "/predict" /\ f.status = 200
            /\ f.body.prediction.sentiment = "neutral"
            /\ f.body.prediction.confidence = Half
            /\ f.body.input_text = Str(<<"!">>)

\* C9, as stated: a positive or negative result has, after rounding, a
\* confidence above 0.5 and at most 1.0, and a confidence of exactly 0.5
\* comes only with neutral.
C9_AboveHalf ==
    phase = "output" =>
        /\ verdict.sentiment \in { "positive", "negative" } =>
              verdict.confidence > Half /\ verdict.confidence <= Scale
        /\ verdict.confidence = Half => verdict.sentiment = "neutral"

\* C9, amended: a positive or negative result has, after rounding, a
\* confidence of at least 0.5 and at most 1.0, and above 0.5 whenever the
\* text has at most 1000 sentiment-bearing words; with at most 1000 such
\* words a confidence of exactly 0.5 comes only with neutral.
C9_AtLeastHalf ==
    phase = "output" =>
        /\ verdict.sentiment \in { "positive", "negative" } =>
              /\ verdict.confidence >= Half /\ verdict.confidence <= Scale
              /\ positive_count + negative_count <= Scale => verdict.confidence > Half
        /\ (verdict.confidence = Half /\ positive_count + negative_count <= Scale) =>
              verdict.sentiment = "neutral"

\* the narrowest majority among 999 words was decided
C9_Witness ==
    /\ phase = "output"
    /\ positive_count = 500 /\ negative_count = 499
    /\ verdict.sentiment = "positive" /\ verdict.confidence = 501

\* C10: every text that a handler passes to the classifier, on /predict and
\* on /batch-predict, has at most 1000 characters.
C10_ClassifiedTextBounded ==
    \A w \in Workers :
        handler[w].called => Len(handler[w].passed.s) <= MaxTextLen
====
